---- MODULE Spec2Model ----
(***************************************************************************)
(* Model of src/ec2_manager.py: an interactive EC2 fleet manager.          *)
(*                                                                         *)
(* The provider's instance registry is the only shared state.  Each        *)
(* process runs main() once per invocation: one menu choice, one action.   *)
(* An action is cut into steps at its provider calls, so that two          *)
(* processes (and the provider's own state transitions) interleave         *)
(* between a listing and the call that follows it.                         *)
(*                                                                         *)
(* Strings the code parses or formats (instance names, numeric inputs,     *)
(* the confirmation) are sequences of one-character strings.               *)
(***************************************************************************)
EXTENDS Integers, Sequences, FiniteSets, TLC

VARIABLES reg, nextId, tagger, procs, pc, runs, ctx

vars == <<reg, nextId, tagger, procs, pc, runs, ctx>>

\* ------------------------------------------------------------------ bounds
MaxInst  == 3      \* instance identifiers the provider can hand out
MaxPre   == 1      \* instances that exist before the first invocation
MaxCount == 2      \* largest count entered at "How many instances to create?"
MaxRuns  == 2      \* invocations of the tool per process

Ids == 1..MaxInst

\* ----------------------------------------------------------------- strings
DigitSeq == <<"0", "1", "2", "3", "4", "5", "6", "7", "8", "9">>

IsDigit(c) == \E i \in 1..10 : DigitSeq[i] = c

DigitVal(c) == (CHOOSE i \in 1..10 : DigitSeq[i] = c) - 1

IsSpace(c) == c = " "

RECURSIVE Digits(_)
\* the decimal digits of n >= 0
Digits(n) ==
    IF n < 10 THEN <<DigitSeq[n + 1]>>
    ELSE Digits(n \div 10) \o <<DigitSeq[(n % 10) + 1]>>

\* str(n)
Str(n) == IF n < 0 THEN <<"-">> \o Digits(-n) ELSE Digits(n)

\* f"{n:02d}": sign-aware zero padding to a minimum width of 2
Format02d(n) ==
    IF n < 0 THEN <<"-">> \o Digits(-n)
    ELSE IF n < 10 THEN <<"0">> \o Digits(n)
    ELSE Digits(n)

RECURSIVE DigitsValue(_, _)
\* the value of a run of digits and underscores, underscores skipped
DigitsValue(s, acc) ==
    IF s = << >> THEN acc
    ELSE IF Head(s) = "_" THEN DigitsValue(Tail(s), acc)
    ELSE DigitsValue(Tail(s), 10 * acc + DigitVal(Head(s)))

\* the body of an integer literal: digits, single underscores between digits
WellFormedDigits(s) ==
    /\ Len(s) >= 1
    /\ \A i \in 1..Len(s) : IsDigit(s[i]) \/ s[i] = "_"
    /\ IsDigit(s[1]) /\ IsDigit(s[Len(s)])
    /\ \A i \in 1..(Len(s) - 1) : ~(s[i] = "_" /\ s[i + 1] = "_")

RECURSIVE Strip(_)
RECURSIVE LStrip(_)
LStrip(s) == IF s # << >> /\ IsSpace(Head(s)) THEN LStrip(Tail(s)) ELSE s

Strip(s) ==
    LET t == LStrip(s)
    IN  IF t # << >> /\ IsSpace(t[Len(t)]) THEN Strip(SubSeq(t, 1, Len(t) - 1))
        ELSE t

\* int(s): [ok |-> FALSE] stands for ValueError
ParseInt(s) ==
    LET t    == Strip(s)
        sgn  == t # << >> /\ Head(t) \in {"-", "+"}
        body == IF sgn THEN Tail(t) ELSE t
    IN  IF WellFormedDigits(body)
        THEN [ok  |-> TRUE,
              val |-> IF sgn /\ Head(t) = "-" THEN 0 - DigitsValue(body, 0)
                      ELSE DigitsValue(body, 0)]
        ELSE [ok |-> FALSE, val |-> 0]

RECURSIVE Split(_)
\* s.split(): the maximal runs of non-whitespace characters
Split(s) ==
    LET t == LStrip(s)
    IN  IF t = << >> THEN << >>
        ELSE LET k == IF \E i \in 1..Len(t) : IsSpace(t[i])
                      THEN (CHOOSE i \in 1..Len(t) :
                               /\ IsSpace(t[i])
                               /\ \A j \in 1..(i - 1) : ~IsSpace(t[j])) - 1
                      ELSE Len(t)
             IN  <<SubSeq(t, 1, k)>> \o Split(SubSeq(t, k + 1, Len(t)))

LowerChar(c) ==
    CASE c = "Y" -> "y"
      [] c = "E" -> "e"
      [] c = "S" -> "s"
      [] c = "N" -> "n"
      [] c = "O" -> "o"
      [] OTHER   -> c

\* s.lower()
Lower(s) == [i \in 1..Len(s) |-> LowerChar(s[i])]

Yes == <<"y", "e", "s">>

\* ------------------------------------------------------------ configuration
INSTANCE_NAME == <<"B">>

\* the states the describe filter asks for
ListedStates == {"pending", "running", "stopping", "stopped"}

\* every state the filter leaves out is modelled as "terminated"

NoName == << >>

\* ------------------------------------------------------------------ inputs
\* names carried by instances that exist before the first invocation
InitNames ==
    { <<"B", " ", "0", "2">>,
      <<"B", " ", "x">>,
      <<"B", " ", "-", "3">>,
      <<"B", "x", " ", "0", "9">> }

InitStates == {"running", "stopped", "terminated"}

CountInputs == {<<"x">>} \cup {Str(n) : n \in -1..MaxCount}

ChoiceInputs == {<<"x">>} \cup {Str(n) : n \in (0 - MaxInst)..(MaxInst + 1)}

ConfirmInputs ==
    { <<"y", "e", "s">>, <<"Y", "E", "S">>, <<"Y", "e", "s">>,
      << >>, <<"n", "o">>, <<"y">>, <<"y", "e", "s", " ">> }

MenuInputs == {"1", "2", "3", "4", "5", "6", "7", "8"}

Procs == {1, 2}

\* ---------------------------------------------------------------- registry
Absent == [state |-> "absent", name |-> NoName]

\* tag:Name matches "<INSTANCE_NAME> *"
MatchesFilter(name) ==
    LET prefix == INSTANCE_NAME \o <<" ">>
    IN  /\ Len(name) >= Len(prefix)
        /\ SubSeq(name, 1, Len(prefix)) = prefix

InFilter(r, i) == r[i].state \in ListedStates /\ MatchesFilter(r[i].name)

\* get_managed_instances(): the records of the matching instances, in the
\* provider's order (by identifier)
get_managed_instances(r) ==
    LET ids == SelectSeq([i \in 1..MaxInst |-> i], LAMBDA i : InFilter(r, i))
    IN  [k \in 1..Len(ids) |->
            [InstanceId |-> ids[k], Name |-> r[ids[k]].name, State |-> r[ids[k]].state]]

SeqRange(s) == {s[i] : i \in 1..Len(s)}

MaxOf(S, default) == IF S = {} THEN default ELSE CHOOSE x \in S : \A y \in S : y <= x

\* faulty variant: the first token of the name is parsed instead of the last
ParsedSuffixesFirstToken(instances) ==
    { ParseInt(Split(instances[k].Name)[1]).val :
        k \in { j \in 1..Len(instances) :
                  /\ Split(instances[j].Name) # << >>
                  /\ ParseInt(Split(instances[j].Name)[1]).ok } }

\* int(inst["Name"].split()[-1]) for each listed instance, failures dropped
ParsedSuffixes(instances) ==
    { ParseInt(Split(instances[k].Name)[Len(Split(instances[k].Name))]).val :
        k \in { j \in 1..Len(instances) :
                  /\ Split(instances[j].Name) # << >>
                  /\ ParseInt(Split(instances[j].Name)[Len(Split(instances[j].Name))]).ok } }

\* faulty variant: the suffix is the number of listed instances plus one
generate_next_name_count(instances) ==
    INSTANCE_NAME \o <<" ">> \o Format02d(Len(instances) + 1)

\* faulty variant: the suffix is the largest listed suffix, not one more
generate_next_name_max(instances) ==
    INSTANCE_NAME \o <<" ">> \o Format02d(MaxOf(ParsedSuffixes(instances) \cup {1}, 1))

\* generate_next_name(), given the listing its describe call returned
generate_next_name(instances) ==
    INSTANCE_NAME \o <<" ">> \o Format02d(MaxOf(ParsedSuffixes(instances), 0) + 1)

\* ----------------------------------------------------------------- provider
\* start_instances: a stopped instance goes to pending
ProviderStart(r, ids) ==
    [i \in Ids |-> IF i \in ids /\ r[i].state = "stopped"
                   THEN [r[i] EXCEPT !.state = "pending"] ELSE r[i]]

\* stop_instances: a running instance goes to stopping
ProviderStop(r, ids) ==
    [i \in Ids |-> IF i \in ids /\ r[i].state = "running"
                   THEN [r[i] EXCEPT !.state = "stopping"] ELSE r[i]]

\* terminate_instances: every named instance leaves the listed states
ProviderTerminate(r, ids) ==
    [i \in Ids |-> IF i \in ids /\ r[i].state \in ListedStates
                   THEN [r[i] EXCEPT !.state = "terminated"] ELSE r[i]]

ProviderEffect(op, r, ids) ==
    CASE op = "start"     -> ProviderStart(r, ids)
      [] op = "stop"      -> ProviderStop(r, ids)
      [] op = "terminate" -> ProviderTerminate(r, ids)

\* ------------------------------------------------------------ process state
\* one provider call as the process made it; ok = FALSE: the call raised
Call(op, ids, name, ok) == [op |-> op, ids |-> ids, name |-> name, ok |-> ok]

\* the locals of one invocation of main(), and what the invocation did
InitCtx ==
    [act         |-> "",        \* the action main() dispatched to
     input       |-> << >>,     \* the count or the selection typed
     confirm     |-> << >>,     \* the confirmation typed
     asked       |-> FALSE,     \* whether a confirmation was asked for
     listed      |-> << >>,     \* instances: the last listing
     sel         |-> << >>,     \* inst: the selected record, when one is
     pend        |-> << >>,     \* the start/stop/terminate call about to be made
     launched    |-> << >>,     \* instances returned by ec2.create_instances
     created_ids |-> << >>,
     name        |-> NoName,
     m0          |-> 0,         \* history: largest suffix listed at the start
     issued      |-> << >>,     \* history: provider calls made, in order
     raised      |-> "",        \* the exception raised, if any
     outcome     |-> "",
     status      |-> "run"]     \* run | returned | exit1

\* main()'s if/elif chain
Dispatch(choice) ==
    CASE choice = "1" -> "create"
      [] choice = "2" -> "start"
      [] choice = "3" -> "stop"
      [] choice = "4" -> "terminate"
      [] choice = "5" -> "start_all"
      [] choice = "6" -> "stop_all"
      [] choice = "7" -> "terminate_all"
      [] OTHER        -> "invalid"

\* what the user of process p may type at the menu: process 1 anything,
\* process 2 (the concurrent run) only "1", create
MenuOf(p) == IF p = 1 THEN MenuInputs ELSE {"1"}

Chosen(p, a) == \E m \in MenuOf(p) : Dispatch(m) = a

\* instances[i] for a Python index i: the 1-based position, 0 for IndexError
PyIndex(len, i) ==
    IF i >= 0 THEN (IF i < len THEN i + 1 ELSE 0)
    ELSE (IF i + len >= 0 THEN i + len + 1 ELSE 0)

\* the action returns to main(), which returns: exit status 0
Returns(p, c, outcome) ==
    /\ ctx' = [ctx EXCEPT ![p] = [c EXCEPT !.outcome = outcome, !.status = "returned"]]
    /\ pc' = [pc EXCEPT ![p] = "done"]

\* the exception leaves the action and main(); __main__ logs it and exits 1
Propagates(p, c, exc) ==
    /\ ctx' = [ctx EXCEPT ![p] = [c EXCEPT !.raised = exc, !.outcome = "fatal",
                                           !.status = "exit1"]]
    /\ pc' = [pc EXCEPT ![p] = "done"]

\* create_instances' except clause: logged, reported, the action returns
Caught(p, c, exc) ==
    Returns(p, [c EXCEPT !.raised = exc], "failed")

Goes(p, c, to) ==
    /\ ctx' = [ctx EXCEPT ![p] = c]
    /\ pc' = [pc EXCEPT ![p] = to]

Issue(c, call) == [c EXCEPT !.issued = Append(@, call)]

\* ------------------------------------------------------------------ actions
\* create_instances(), up to and including ec2.create_instances
CreateInstances(p) ==
    /\ pc[p] = "menu" /\ Chosen(p, "create")
    /\ \E cnt \in CountInputs :
        LET n  == ParseInt(Strip(cnt))
            c0 == [InitCtx EXCEPT
                     !.act = "create", !.input = cnt,
                     !.m0 = MaxOf(ParsedSuffixes(get_managed_instances(reg)), 0)]
        IN  IF ~n.ok
            THEN Caught(p, c0, "ValueError") /\ UNCHANGED <<reg, nextId>>
            ELSE IF n.val <= 0
            THEN Returns(p, c0, "invalid") /\ UNCHANGED <<reg, nextId>>
            ELSE
              \/ /\ Caught(p, Issue(c0, Call("create", << >>, NoName, FALSE)), "provider")
                 /\ UNCHANGED <<reg, nextId>>
              \/ /\ nextId + n.val - 1 <= MaxInst
                 /\ LET new == [k \in 1..n.val |-> nextId + k - 1]
                    IN  /\ reg' = [i \in Ids |->
                                     IF i \in SeqRange(new)
                                     THEN [state |-> "pending", name |-> NoName]
                                     ELSE reg[i]]
                        /\ nextId' = nextId + n.val
                        /\ Goes(p, [Issue(c0, Call("create", new, NoName, TRUE))
                                      EXCEPT !.launched = new], "gen")
    /\ UNCHANGED <<tagger, procs, runs>>

\* the loop body's name = generate_next_name()
GenerateNextName(p) ==
    /\ pc[p] = "gen"
    /\ \/ Caught(p, Issue(ctx[p], Call("describe", << >>, NoName, FALSE)), "provider")
       \/ LET instances == get_managed_instances(reg)
          IN  Goes(p, [Issue(ctx[p], Call("describe", << >>, NoName, TRUE))
                         EXCEPT !.listed = instances,
                                !.name = generate_next_name(instances)], "tag")
    /\ UNCHANGED <<reg, nextId, tagger, procs, runs>>

\* faulty variant: the name is computed once, before the loop
CreateTagsKeepsName(p) ==
    /\ pc[p] = "tag"
    /\ LET c  == ctx[p]
           id == c.launched[Len(c.created_ids) + 1]
       IN  \/ /\ Caught(p, Issue(c, Call("tag", <<id>>, c.name, FALSE)), "provider")
              /\ UNCHANGED <<reg, tagger>>
           \/ /\ reg' = [reg EXCEPT ![id].name = c.name]
              /\ tagger' = [tagger EXCEPT ![id] = p]
              /\ Goes(p, [Issue(c, Call("tag", <<id>>, c.name, TRUE))
                            EXCEPT !.created_ids = Append(@, id)],
                      IF Len(c.created_ids) + 1 < Len(c.launched) THEN "tag" ELSE "wait")
    /\ UNCHANGED <<nextId, procs, runs>>

\* the loop body's ec2_client.create_tags and created_ids.append
CreateTags(p) ==
    /\ pc[p] = "tag"
    /\ LET c  == ctx[p]
           id == c.launched[Len(c.created_ids) + 1]
       IN  \/ /\ Caught(p, Issue(c, Call("tag", <<id>>, c.name, FALSE)), "provider")
              /\ UNCHANGED <<reg, tagger>>
           \/ /\ reg' = [reg EXCEPT ![id].name = c.name]
              /\ tagger' = [tagger EXCEPT ![id] = p]
              /\ Goes(p, [Issue(c, Call("tag", <<id>>, c.name, TRUE))
                            EXCEPT !.created_ids = Append(@, id)],
                      IF Len(c.created_ids) + 1 < Len(c.launched) THEN "gen" ELSE "wait")
    /\ UNCHANGED <<nextId, procs, runs>>

\* get_waiter("instance_running").wait: returns once every instance runs
WaitRunning(p) ==
    /\ pc[p] = "wait"
    /\ LET c == ctx[p]
       IN  \/ Caught(p, Issue(c, Call("wait", c.created_ids, NoName, FALSE)), "provider")
           \/ /\ \A i \in SeqRange(c.created_ids) : reg[i].state = "running"
              /\ Returns(p, Issue(c, Call("wait", c.created_ids, NoName, TRUE)), "ok")
    /\ UNCHANGED <<reg, nextId, tagger, procs, runs>>

\* faulty variant: the state check is missing
StartGateUnchecked(p, c, inst) ==
    Goes(p, [c EXCEPT !.pend = <<Call("start", <<inst.InstanceId>>, NoName, TRUE)>>],
         "call")

StartGate(p, c, inst) ==
    IF inst.State # "stopped" THEN Returns(p, c, "rejected")
    ELSE Goes(p, [c EXCEPT !.pend = <<Call("start", <<inst.InstanceId>>, NoName, TRUE)>>],
              "call")

StopGate(p, c, inst) ==
    IF inst.State # "running" THEN Returns(p, c, "rejected")
    ELSE Goes(p, [c EXCEPT !.pend = <<Call("stop", <<inst.InstanceId>>, NoName, TRUE)>>],
              "call")

\* faulty variant: anything but "no" confirms
ConfirmedUnlessNo(confirm) == Lower(confirm) # <<"n", "o">>

\* confirm = input(...).lower(); if confirm != "yes": cancelled
Confirmed(confirm) == Lower(confirm) = Yes

TerminateGate(p, c, ids) ==
    \E confirm \in ConfirmInputs :
        LET c1 == [c EXCEPT !.confirm = confirm, !.asked = TRUE]
        IN  IF ~Confirmed(confirm) THEN Returns(p, c1, "cancelled")
            ELSE Goes(p, [c1 EXCEPT !.pend = <<Call("terminate", ids, NoName, TRUE)>>],
                      "call")

\* the common head of start_instance, stop_instance and terminate_instance:
\* list, return if empty, read the selection, index the listing
Select(p, act) ==
    /\ pc[p] = "menu" /\ Chosen(p, act)
    /\ LET c0 == [InitCtx EXCEPT !.act = act]
       IN  \/ Propagates(p, Issue(c0, Call("describe", << >>, NoName, FALSE)), "provider")
           \/ LET instances == get_managed_instances(reg)
                  c1 == [Issue(c0, Call("describe", << >>, NoName, TRUE))
                           EXCEPT !.listed = instances]
              IN  IF instances = << >>
                  THEN Returns(p, c1, "empty")
                  ELSE \E inp \in ChoiceInputs :
                         LET n   == ParseInt(inp)
                             c2  == [c1 EXCEPT !.input = inp]
                             pos == PyIndex(Len(instances), n.val - 1)
                         IN  IF ~n.ok THEN Propagates(p, c2, "ValueError")
                             ELSE IF pos = 0 THEN Propagates(p, c2, "IndexError")
                             ELSE LET inst == instances[pos]
                                      c3   == [c2 EXCEPT !.sel = <<inst>>]
                                  IN  CASE act = "start" -> StartGate(p, c3, inst)
                                        [] act = "stop"  -> StopGate(p, c3, inst)
                                        [] act = "terminate" ->
                                             TerminateGate(p, c3, <<inst.InstanceId>>)
    /\ UNCHANGED <<reg, nextId, tagger, procs, runs>>

start_instance(p) == Select(p, "start")

stop_instance(p) == Select(p, "stop")

terminate_instance(p) == Select(p, "terminate")

\* faulty variant: the state filter is missing
IdsInAnyState(instances, state) ==
    [k \in 1..Len(instances) |-> instances[k].InstanceId]

\* the identifiers of the listed instances in the given state, in order
IdsInState(instances, state) ==
    LET hit == SelectSeq(instances, LAMBDA inst : inst.State = state)
    IN  [k \in 1..Len(hit) |-> hit[k].InstanceId]

AllIds(instances) == [k \in 1..Len(instances) |-> instances[k].InstanceId]

\* the common shape of start_all_instances and stop_all_instances
Bulk(p, act, op, state) ==
    /\ pc[p] = "menu" /\ Chosen(p, act)
    /\ LET c0 == [InitCtx EXCEPT !.act = act]
       IN  \/ Propagates(p, Issue(c0, Call("describe", << >>, NoName, FALSE)), "provider")
           \/ LET instances == get_managed_instances(reg)
                  c1  == [Issue(c0, Call("describe", << >>, NoName, TRUE))
                            EXCEPT !.listed = instances]
                  ids == IdsInState(instances, state)
              IN  IF ids = << >> THEN Returns(p, c1, "nothing")
                  ELSE Goes(p, [c1 EXCEPT !.pend = <<Call(op, ids, NoName, TRUE)>>], "call")
    /\ UNCHANGED <<reg, nextId, tagger, procs, runs>>

start_all_instances(p) == Bulk(p, "start_all", "start", "stopped")

stop_all_instances(p) == Bulk(p, "stop_all", "stop", "running")

terminate_all_instances(p) ==
    /\ pc[p] = "menu" /\ Chosen(p, "terminate_all")
    /\ LET c0 == [InitCtx EXCEPT !.act = "terminate_all"]
       IN  \/ Propagates(p, Issue(c0, Call("describe", << >>, NoName, FALSE)), "provider")
           \/ LET instances == get_managed_instances(reg)
                  c1 == [Issue(c0, Call("describe", << >>, NoName, TRUE))
                           EXCEPT !.listed = instances]
              IN  IF instances = << >> THEN Returns(p, c1, "empty")
                  ELSE TerminateGate(p, c1, AllIds(instances))
    /\ UNCHANGED <<reg, nextId, tagger, procs, runs>>

\* the ec2_client.start_instances / stop_instances / terminate_instances call
\* that ends a start, stop or terminate action
IssueCall(p) ==
    /\ pc[p] = "call"
    /\ LET c    == ctx[p]
           call == c.pend[1]
           c1   == [c EXCEPT !.pend = << >>]
       IN  \/ /\ Propagates(p, Issue(c1, [call EXCEPT !.ok = FALSE]), "provider")
              /\ UNCHANGED reg
           \/ /\ reg' = ProviderEffect(call.op, reg, SeqRange(call.ids))
              /\ Returns(p, Issue(c1, call), "ok")
    /\ UNCHANGED <<nextId, tagger, procs, runs>>

\* main()'s else branch
InvalidChoice(p) ==
    /\ pc[p] = "menu" /\ Chosen(p, "invalid")
    /\ Returns(p, [InitCtx EXCEPT !.act = "invalid"], "invalid")
    /\ UNCHANGED <<reg, nextId, tagger, procs, runs>>

\* the tool is run again
NextInvocation(p) ==
    /\ pc[p] = "done" /\ runs[p] < MaxRuns
    /\ runs' = [runs EXCEPT ![p] = @ + 1]
    /\ pc' = [pc EXCEPT ![p] = "menu"]
    /\ ctx' = [ctx EXCEPT ![p] = InitCtx]
    /\ UNCHANGED <<reg, nextId, tagger, procs>>

\* the provider completes a transition: pending -> running, stopping -> stopped
ProviderProgress ==
    /\ \E i \in Ids :
         /\ reg[i].state \in {"pending", "stopping"}
         /\ reg' = [reg EXCEPT ![i].state =
                       IF reg[i].state = "pending" THEN "running" ELSE "stopped"]
    /\ UNCHANGED <<nextId, tagger, procs, pc, runs, ctx>>

\* ---------------------------------------------------------- specifications
\* registries of k pre-existing instances with pairwise different names
InitRegistry(k) ==
    { r \in [Ids -> [state : InitStates \cup {"absent"}, name : InitNames \cup {NoName}]] :
        /\ \A i \in Ids : i > k <=> r[i] = Absent
        /\ \A i \in 1..k : r[i].state # "absent" /\ r[i].name # NoName
        /\ \A i, j \in 1..k : i # j => r[i].name # r[j].name }

InitWith(active, firstRun, pre) ==
    /\ procs = active
    /\ \E k \in 0..pre :
         /\ reg \in InitRegistry(k)
         /\ nextId = k + 1
    /\ tagger = [i \in Ids |-> 0]
    /\ pc = [p \in Procs |-> IF p \in active THEN "menu" ELSE "off"]
    /\ runs = [p \in Procs |-> IF p \in active THEN firstRun[p] ELSE 0]
    /\ ctx = [p \in Procs |-> InitCtx]

\* one process, MaxRuns invocations one after another
Init == InitWith({1}, [p \in Procs |-> 1], MaxPre)

\* two processes at an empty registry: process 1 runs the tool once, process 2
\* (which only creates) twice
InitRace == InitWith(Procs, [p \in Procs |-> IF p = 1 THEN MaxRuns ELSE MaxRuns - 1], 0)

Next ==
    \/ \E p \in procs : CreateInstances(p)
    \/ \E p \in procs : GenerateNextName(p)
    \/ \E p \in procs : CreateTags(p)
    \/ \E p \in procs : WaitRunning(p)
    \/ \E p \in procs : start_instance(p)
    \/ \E p \in procs : stop_instance(p)
    \/ \E p \in procs : terminate_instance(p)
    \/ \E p \in procs : start_all_instances(p)
    \/ \E p \in procs : stop_all_instances(p)
    \/ \E p \in procs : terminate_all_instances(p)
    \/ \E p \in procs : IssueCall(p)
    \/ \E p \in procs : InvalidChoice(p)
    \/ \E p \in procs : NextInvocation(p)
    \/ ProviderProgress

\* one process: invocations of the tool run one after another
Spec == Init /\ [][Next]_vars

\* two processes run the tool at the same time
SpecRace == InitRace /\ [][Next]_vars

\* ------------------------------------------------------------------ claims
\* the integer a name's trailing token parses to, if it does
Suffix(name) ==
    LET toks == Split(name)
    IN  IF toks = << >> THEN [ok |-> FALSE, val |-> 0] ELSE ParseInt(toks[Len(toks)])

TransitionOps == {"start", "stop", "terminate"}

\* the start/stop/terminate calls an invocation has made or is about to make
Attempted(c) ==
    {c.issued[k] : k \in {j \in 1..Len(c.issued) : c.issued[j].op \in TransitionOps}}
        \cup SeqRange(c.pend)

CallsOf(c, op) == SelectSeq(c.issued, LAMBDA call : call.op = op)

Managed(i) == InFilter(reg, i)

\* C1: whenever generate_next_name has returned a name for a listing, the
\* name's suffix parses, is greater than every listed suffix that parses, is
\* one more than the largest of them, and is 1 when none parses.
C1_NextNameAboveEverySuffix ==
    \A p \in procs :
        pc[p] = "tag" =>
            LET c    == ctx[p]
                new  == Suffix(c.name)
                good == {k \in 1..Len(c.listed) : Suffix(c.listed[k].Name).ok}
            IN  /\ new.ok
                /\ \A k \in good : Suffix(c.listed[k].Name).val < new.val
                /\ good # {} => \E k \in good : new.val = Suffix(c.listed[k].Name).val + 1
                /\ good = {} => new.val = 1

\* C1 witness: a name was generated from a listing holding a name that does
\* not parse and the name "B 01", and is "B 02".
C1_Witness ==
    \E p \in procs :
        /\ pc[p] = "tag"
        /\ \E k \in 1..Len(ctx[p].listed) : ~Suffix(ctx[p].listed[k].Name).ok
        /\ \E k \in 1..Len(ctx[p].listed) : ctx[p].listed[k].Name = <<"B", " ", "0", "1">>
        /\ ctx[p].name = <<"B", " ", "0", "2">>

\* C2: with one process, no two managed (listed) instances carry the same
\* name, and a generated name differs from every name in the listing it was
\* generated from.
C2_NamesUnique ==
    /\ \A i, j \in Ids : (i # j /\ Managed(i) /\ Managed(j)) => reg[i].name # reg[j].name
    /\ \A p \in procs :
          pc[p] = "tag" =>
              /\ \A k \in 1..Len(ctx[p].listed) : ctx[p].listed[k].Name # ctx[p].name
              /\ \A i \in Ids : Managed(i) => reg[i].name # ctx[p].name

\* C2 witness: two instances named by the tool are listed next to an older one.
C2_Witness ==
    \E i, j, k \in Ids :
        /\ i # j /\ Managed(i) /\ Managed(j) /\ Managed(k)
        /\ tagger[i] = 1 /\ tagger[j] = 1 /\ tagger[k] = 0

\* C3: start_instance (stop_instance) makes a start (stop) call only for a
\* selected instance listed as stopped (running); a selected instance in any
\* other state is rejected and no transition call is made.
C3_StartStopGated ==
    \A p \in procs :
        LET c   == ctx[p]
            req == IF c.act = "start" THEN "stopped" ELSE "running"
        IN  c.act \in {"start", "stop"} =>
              /\ \A call \in Attempted(c) :
                    /\ call.op = c.act
                    /\ c.sel # << >>
                    /\ c.sel[1].State = req
                    /\ call.ids = <<c.sel[1].InstanceId>>
              /\ (c.sel # << >> /\ c.sel[1].State # req) =>
                    /\ c.outcome = "rejected"
                    /\ c.status = "returned"
                    /\ Attempted(c) = {}

\* C3 witness: start on the second listed instance, which is running, was
\* rejected.
C3_Witness ==
    \E p \in procs :
        /\ ctx[p].act = "start"
        /\ ctx[p].input = <<"2">>
        /\ ctx[p].sel # << >>
        /\ ctx[p].sel[1].State = "running"
        /\ ctx[p].outcome = "rejected"

\* the spellings of "yes" in any case
YesAnyCase == {s \in [1..3 -> {"y", "Y", "e", "E", "s", "S"}] :
                 /\ s[1] \in {"y", "Y"} /\ s[2] \in {"e", "E"} /\ s[3] \in {"s", "S"}}

C4_State ==
    \A p \in procs :
        LET c == ctx[p]
        IN  c.act \in {"terminate", "terminate_all"} =>
              /\ Attempted(c) # {} =>
                    /\ c.asked /\ c.confirm \in YesAnyCase
                    /\ \A call \in Attempted(c) : call.op = "terminate"
              /\ (c.asked /\ c.confirm \notin YesAnyCase) =>
                    /\ c.outcome = "cancelled"
                    /\ c.status = "returned"
                    /\ Attempted(c) = {}

C4_Step ==
    \A p \in procs :
        (ctx[p].outcome # "cancelled" /\ ctx'[p].outcome = "cancelled") => reg' = reg

\* C4: terminate_instance and terminate_all_instances make a terminate call
\* only after a confirmation that is "yes" in some case; any other
\* confirmation, the empty one included, cancels: no call is made, and the
\* cancelling step leaves the registry as it was.
C4_TerminateNeedsYes == []C4_State /\ [][C4_Step]_vars

\* C4 witness: a terminate was cancelled by the empty confirmation.
C4_Witness ==
    \E p \in procs :
        /\ ctx[p].act = "terminate"
        /\ ctx[p].asked
        /\ ctx[p].confirm = << >>
        /\ ctx[p].outcome = "cancelled"

\* C5: start_all_instances (stop_all_instances) makes at most one call, a start
\* (stop) call whose identifiers are exactly the listed instances in state
\* stopped (running), and makes no call when there is none.
C5_BulkExactlyMatching ==
    \A p \in procs :
        LET c     == ctx[p]
            state == IF c.act = "start_all" THEN "stopped" ELSE "running"
            op    == IF c.act = "start_all" THEN "start" ELSE "stop"
            match == {c.listed[k].InstanceId :
                        k \in {j \in 1..Len(c.listed) : c.listed[j].State = state}}
        IN  c.act \in {"start_all", "stop_all"} =>
              /\ \A call \in Attempted(c) :
                    /\ call.op = op
                    /\ SeqRange(call.ids) = match
                    /\ Len(call.ids) = Cardinality(match)
                    /\ match # {}
              /\ Len(SelectSeq(c.issued, LAMBDA call : call.op \in TransitionOps))
                    + Len(c.pend) <= 1
              /\ (c.status = "returned" /\ match = {}) =>
                    c.outcome = "nothing" /\ Attempted(c) = {}

\* C5 witness: start-all started the one stopped instance of a listing that
\* also held an instance in another state.
C5_Witness ==
    \E p \in procs :
        /\ ctx[p].act = "start_all"
        /\ ctx[p].outcome = "ok"
        /\ Len(ctx[p].listed) >= 2
        /\ \E call \in Attempted(ctx[p]) : Len(call.ids) = 1 /\ call.ok

\* C6, as claimed: when the resolver's describe call fails during create, every
\* launched instance is still tagged and the running-wait is still issued.
C6_FallbackNameOnListingFailure ==
    \A p \in procs :
        LET c == ctx[p]
        IN  (/\ c.act = "create"
             /\ c.status # "run"
             /\ \E k \in 1..Len(c.issued) : c.issued[k].op = "describe" /\ ~c.issued[k].ok)
            => /\ Len(CallsOf(c, "tag")) = Len(c.launched)
               /\ CallsOf(c, "wait") # << >>

\* C7, as claimed: a numeric selection outside 1..len(listing) selects no
\* instance and leads to no start, stop or terminate call.
C7_OutOfRangeSelectsNothing ==
    \A p \in procs :
        LET c == ctx[p]
            n == ParseInt(c.input)
        IN  (/\ c.act \in {"start", "stop", "terminate"}
             /\ c.listed # << >>
             /\ c.input # << >>
             /\ n.ok
             /\ n.val \notin 1..Len(c.listed))
            => c.sel = << >> /\ Attempted(c) = {}

\* C8, as claimed: a failed provider call never ends the process with an error
\* status: the action catches it and returns.
C8_FailuresCaughtInAction ==
    \A p \in procs :
        LET c == ctx[p]
        IN  (\E k \in 1..Len(c.issued) : ~c.issued[k].ok)
            => c.status = "returned" /\ c.outcome = "failed"

\* C9: with two processes, two managed instances carry the same name only when
\* two different processes named them (one from a listing that did not yet
\* show the other's tag); the witness is such a state.
C9_DuplicatesOnlyAcrossProcesses ==
    \A i, j \in Ids :
        (i # j /\ Managed(i) /\ Managed(j) /\ reg[i].name = reg[j].name)
        => tagger[i] # tagger[j]

\* C9 witness: both processes ran create, computed the same candidate, and two
\* managed instances carry it.
C9_Witness ==
    /\ ctx[1].act = "create" /\ ctx[2].act = "create"
    /\ ctx[1].name = ctx[2].name
    /\ \E i, j \in Ids :
          /\ i # j /\ Managed(i) /\ Managed(j)
          /\ reg[i].name = ctx[1].name /\ reg[j].name = ctx[1].name

\* C10: a create of N instances that met no failure called the resolver once
\* per instance, tagged each instance before the next resolver call, gave the
\* instances the suffixes m+1 .. m+N in launch order (m the largest suffix
\* listed beforehand, 0 if none), and waited last, for exactly the N launched.
C10_SequentialNamesThenWait ==
    \A p \in procs :
        LET c == ctx[p]
            N == Len(c.launched)
        IN  (c.act = "create" /\ c.outcome = "ok") =>
              /\ N >= 1 /\ N = ParseInt(c.input).val
              /\ Len(c.issued) = 2 * N + 2
              /\ c.issued[1].op = "create" /\ c.issued[1].ids = c.launched
              /\ \A k \in 1..N :
                    /\ c.issued[2 * k].op = "describe"
                    /\ c.issued[2 * k + 1].op = "tag"
                    /\ c.issued[2 * k + 1].ids = <<c.launched[k]>>
                    /\ Suffix(c.issued[2 * k + 1].name).val = c.m0 + k
                    /\ reg[c.launched[k]].name = c.issued[2 * k + 1].name
              /\ c.issued[2 * N + 2].op = "wait"
              /\ c.issued[2 * N + 2].ids = c.launched
              /\ Cardinality(SeqRange(c.launched)) = N

\* C10 witness: a create of two instances next to a listed suffix completed.
C10_Witness ==
    \E p \in procs :
        /\ ctx[p].act = "create"
        /\ ctx[p].outcome = "ok"
        /\ Len(ctx[p].launched) = 2
        /\ ctx[p].m0 = 2

====
